---- MODULE Spec2Model ----
(***************************************************************************)
(* xlsx2csv: option parsing, sheet selection and output routing of         *)
(* src/main.rs, as a state machine over the positions of main().           *)
(*                                                                         *)
(* Text is modelled as a sequence of one-character strings, so that        *)
(* parsing, searching and formatting are computed character by character.  *)
(***************************************************************************)
EXTENDS Integers, Sequences, FiniteSets, TLC

(***************************************************************************)
(* Bounds of the explored inputs.                                          *)
(***************************************************************************)
MaxSheets == 2
MaxRows == 2
MaxOutputs == 2

(***************************************************************************)
(* Text helpers.                                                           *)
(***************************************************************************)
Min(a, b) == IF a <= b THEN a ELSE b

Range(s) == {s[k] : k \in 1..Len(s)}

SeqsUpTo(S, n) == UNION {[1..k -> S] : k \in 0..n}

IsPrefixAt(p, s, k) ==
    /\ k + Len(p) - 1 <= Len(s)
    /\ \A j \in 1..Len(p) : s[k + j - 1] = p[j]

\* p occurs as a contiguous run of characters of s.
IsInfix(p, s) == \E k \in 1..(Len(s) + 1) : IsPrefixAt(p, s, k)

\* Length in bytes of the UTF-8 encoding of one character.
ByteLen(c) == IF c = "é" THEN 2 ELSE 1

RECURSIVE StrByteLen(_)
StrByteLen(s) == IF s = <<>> THEN 0 ELSE ByteLen(Head(s)) + StrByteLen(Tail(s))

ToLower(c) ==
    CASE c = "A" -> "a"
      [] c = "B" -> "b"
      [] c = "X" -> "x"
      [] OTHER -> c

Lowered(s) == [k \in 1..Len(s) |-> ToLower(s[k])]

\* [String]::join(sep)
RECURSIVE JoinStr(_, _)
JoinStr(strs, sep) ==
    IF strs = <<>> THEN <<>>
    ELSE IF Len(strs) = 1 THEN strs[1]
    ELSE strs[1] \o sep \o JoinStr(Tail(strs), sep)

(***************************************************************************)
(* Decimal numerals.  A usize is kept as its decimal numeral without       *)
(* leading zeros: its range exceeds the integers TLC computes with.        *)
(***************************************************************************)
DigitChars == <<"0", "1", "2", "3", "4", "5", "6", "7", "8", "9">>

IsDigit(c) == \E d \in 1..10 : DigitChars[d] = c

DigitVal(c) == (CHOOSE d \in 1..10 : DigitChars[d] = c) - 1

RECURSIVE StripZeros(_)
StripZeros(ds) ==
    IF Len(ds) > 1 /\ Head(ds) = "0" THEN StripZeros(Tail(ds)) ELSE ds

RECURSIVE NumeralOf(_)
NumeralOf(n) ==
    IF n < 10 THEN <<DigitChars[n + 1]>>
    ELSE NumeralOf(n \div 10) \o <<DigitChars[(n % 10) + 1]>>

RECURSIVE NatOf(_)
NatOf(ds) ==
    IF ds = <<>> THEN 0
    ELSE 10 * NatOf(SubSeq(ds, 1, Len(ds) - 1)) + DigitVal(ds[Len(ds)])

RECURSIVE LexLess(_, _)
LexLess(a, b) ==
    IF a = <<>> THEN FALSE
    ELSE IF DigitVal(Head(a)) # DigitVal(Head(b))
         THEN DigitVal(Head(a)) < DigitVal(Head(b))
         ELSE LexLess(Tail(a), Tail(b))

\* a < b for numerals without leading zeros
NumLess(a, b) ==
    \/ Len(a) < Len(b)
    \/ Len(a) = Len(b) /\ LexLess(a, b)

\* usize::MAX of a 64-bit target
USIZE_MAX ==
    <<"1", "8", "4", "4", "6", "7", "4", "4", "0", "7",
      "3", "7", "0", "9", "5", "5", "1", "6", "1", "5">>

\* <usize as FromStr>::from_str: an optional leading '+', then one or more
\* ASCII digits whose value fits in a usize.
ParseUsize(s) ==
    LET digits == IF s # <<>> /\ Head(s) = "+" THEN Tail(s) ELSE s
        num == StripZeros(digits)
    IN  IF s = <<>> THEN [ok |-> FALSE, val |-> <<>>]
        ELSE IF Len(s) = 1 /\ s[1] \in {"+", "-"} THEN [ok |-> FALSE, val |-> <<>>]
        ELSE IF \E k \in 1..Len(digits) : ~IsDigit(digits[k])
             THEN [ok |-> FALSE, val |-> <<>>]
        ELSE IF NumLess(USIZE_MAX, num) THEN [ok |-> FALSE, val |-> <<>>]
        ELSE [ok |-> TRUE, val |-> num]

(***************************************************************************)
(* SheetSelector                                                           *)
(***************************************************************************)
ById(id) == [tag |-> "ById", id |-> id, name |-> <<>>]

ByName(name) == [tag |-> "ByName", id |-> <<>>, name |-> name]

Ok(v) == [ok |-> TRUE, val |-> v, err |-> <<>>]

Err(msg) == [ok |-> FALSE, val |-> <<>>, err |-> msg]

\* sheetnames.iter().find(|s| *s == name): the first equal element
RECURSIVE FindName(_, _)
FindName(sheetnames, name) ==
    IF sheetnames = <<>> THEN [some |-> FALSE, v |-> <<>>]
    ELSE IF Head(sheetnames) = name THEN [some |-> TRUE, v |-> Head(sheetnames)]
    ELSE FindName(Tail(sheetnames), name)

\* Variant: *id > sheetnames.len()
IdOutOfRangeStrict(id, n) == NumLess(NumeralOf(n), id)

\* *id >= sheetnames.len()
IdOutOfRange(id, n) == ~NumLess(id, NumeralOf(n))

\* The messages' back-quote is written BQ.
BQ == "'"

IdErrorMsg(id, n) ==
    <<"s", "h", "e", "e", "t", " ", "i", "d", " ", BQ>> \o id
    \o <<BQ, " ", "i", "s", " ", "n", "o", "t", " ", "v", "a", "l", "i", "d",
         " ", "-", " ", "o", "n", "l", "y", " ", "*", "*">>
    \o NumeralOf(n)
    \o <<"*", "*", " ", "s", "h", "e", "e", "t", "s", " ",
         "a", "v", "a", "l", "i", "a", "b", "l", "e", "!">>

NameErrorMsg(name, sheetnames) ==
    <<"s", "h", "e", "e", "t", " ", "n", "a", "m", "e", " ", BQ>> \o name
    \o <<BQ, " ", "i", "s", " ", "n", "o", "t", " ", "i", "n", " ", "(">>
    \o JoinStr(sheetnames, <<",", " ">>)
    \o <<")">>

\* A read past the end of the slice panics; it is not a Result.
INDEX_PANIC == [ok |-> FALSE, val |-> <<>>, err |-> <<"index out of bounds">>]

\* SheetSelector::find_in
find_in(selector, sheetnames) ==
    IF selector.tag = "ById"
    THEN IF IdOutOfRange(selector.id, Len(sheetnames))
         THEN Err(IdErrorMsg(selector.id, Len(sheetnames)))
         ELSE IF NatOf(selector.id) + 1 \in 1..Len(sheetnames)
              THEN Ok(sheetnames[NatOf(selector.id) + 1])
              ELSE INDEX_PANIC
    ELSE LET f == FindName(sheetnames, selector.name)
         IN  IF f.some THEN Ok(f.v)
             ELSE Err(NameErrorMsg(selector.name, sheetnames))

\* Variant: every text is taken as a name.
SelectorFromStrByName(str) == Ok(ByName(str))

\* <SheetSelector as FromStr>::from_str
SelectorFromStr(str) ==
    LET p == ParseUsize(str)
    IN  IF p.ok THEN Ok(ById(p.val)) ELSE Ok(ByName(str))

(***************************************************************************)
(* Delimiter                                                               *)
(***************************************************************************)
TAB == "\t"
NEWLINE == "\n"

IsAscii(c) == ByteLen(c) = 1

\* <Delimiter as FromStr>::from_str
DelimiterFromStr(str) ==
    IF str = <<"\\", "t">> THEN Ok(TAB)
    ELSE IF str = <<"\\", "n">> THEN Ok(NEWLINE)
    ELSE IF StrByteLen(str) # 1 THEN Err(<<"not a single ASCII character">>)
    ELSE IF IsAscii(str[1]) THEN Ok(str[1])
    ELSE Err(<<"not an ASCII delimiter">>)

\* Delimiter::to_file_extension
to_file_extension(d) == IF d = TAB THEN <<"t", "s", "v">> ELSE <<"c", "s", "v">>

(***************************************************************************)
(* Regex patterns of --include / --exclude.  The explored patterns are     *)
(* literals: a literal matches a name when it occurs anywhere in it, and a *)
(* pattern holding an unclosed group does not compile.                     *)
(***************************************************************************)
\* RegexBuilder::new(p).case_insensitive(ignore_case).build()
RegexBuild(p, ignore_case) ==
    IF "(" \in Range(p) THEN Err(<<"regex parse error">>)
    ELSE Ok([lit |-> p, ci |-> ignore_case])

\* Regex::is_match
is_match(re, name) ==
    IF re.ci THEN IsInfix(Lowered(re.lit), Lowered(name))
    ELSE IsInfix(re.lit, name)

(***************************************************************************)
(* Paths                                                                   *)
(***************************************************************************)
\* PathBuf::join: an absolute argument replaces the base, an empty base adds
\* no separator.
PathJoin(base, rel) ==
    IF rel # <<>> /\ Head(rel) = "/" THEN rel
    ELSE IF base = <<>> THEN rel
    ELSE IF base[Len(base)] = "/" THEN base \o rel
    ELSE base \o <<"/">> \o rel

(***************************************************************************)
(* The command line and the option parser (struct Opt).                    *)
(***************************************************************************)
None == [some |-> FALSE, v |-> <<>>]

Some(v) == [some |-> TRUE, v |-> v]

\* The name of each field's argument: the derive names an argument by the
\* kebab-case form of its field (the names given to `requires` at the
\* workdir, include, exclude and ignore_case fields).
ArgName ==
    [xlsx |-> "xlsx", output |-> "output", list |-> "list", select |-> "select",
     use_sheet_names |-> "use-sheet-names", workdir |-> "workdir",
     include |-> "include", exclude |-> "exclude",
     ignore_case |-> "ignore-case", delimiter |-> "delimiter"]

\* conflicts_with / conflicts_with_all of each field, as written.
ConflictsWith ==
    [xlsx |-> {}, output |-> {},
     list |-> {"output", "select", "use_sheet_names"},
     select |-> {"output"},
     use_sheet_names |-> {"output"},
     workdir |-> {"output"},
     include |-> {}, exclude |-> {}, ignore_case |-> {}, delimiter |-> {}]

\* requires of each field, as written.
Requires ==
    [xlsx |-> {}, output |-> {}, list |-> {}, select |-> {},
     use_sheet_names |-> {},
     workdir |-> {"use-sheet-names"},
     include |-> {"use-sheet-names"},
     exclude |-> {"use-sheet-names"},
     ignore_case |-> {"use-sheet-names"},
     delimiter |-> {}]

\* The fields whose argument occurs on the command line a.
Given(a) ==
    {"xlsx"}
    \cup (IF a.output # <<>> THEN {"output"} ELSE {})
    \cup (IF a.list THEN {"list"} ELSE {})
    \cup (IF a.select.some THEN {"select"} ELSE {})
    \cup (IF a.use_sheet_names THEN {"use_sheet_names"} ELSE {})
    \cup (IF a.workdir.some THEN {"workdir"} ELSE {})
    \cup (IF a.include.some THEN {"include"} ELSE {})
    \cup (IF a.exclude.some THEN {"exclude"} ELSE {})
    \cup (IF a.ignore_case THEN {"ignore_case"} ELSE {})

\* The names of the arguments that occur on the command line a.
Present(a) == {ArgName[f] : f \in Given(a)}

\* An argument that occurs names, as a conflict, an argument that occurs.
HasConflict(a) ==
    \E f \in Given(a) : \E c \in ConflictsWith[f] : c \in Present(a)

\* An argument that occurs requires an argument that does not.
MissingRequired(a) ==
    \E f \in Given(a) : \E q \in Requires[f] : q \notin Present(a)

\* Variant: a malformed delimiter falls back to the default.
ParseOptLenient(a) ==
    LET d == DelimiterFromStr(a.delimiter)
    IN  IF HasConflict(a) THEN Err(<<"conflict">>)
        ELSE IF MissingRequired(a) THEN Err(<<"required">>)
        ELSE Ok([output |-> a.output,
                 list |-> a.list,
                 select |-> IF a.select.some
                            THEN Some(SelectorFromStr(a.select.v).val)
                            ELSE [some |-> FALSE, v |-> ByName(<<>>)],
                 use_sheet_names |-> a.use_sheet_names,
                 workdir |-> a.workdir,
                 include |-> a.include,
                 exclude |-> a.exclude,
                 ignore_case |-> a.ignore_case,
                 delimiter |-> IF d.ok THEN d.val ELSE ","])

\* Opt::from_args: the parsed options, or the usage error that ends the
\* process.
ParseOpt(a) ==
    LET d == DelimiterFromStr(a.delimiter)
    IN  IF HasConflict(a) THEN Err(<<"conflict">>)
        ELSE IF MissingRequired(a) THEN Err(<<"required">>)
        ELSE IF ~d.ok THEN Err(<<"delimiter">>)
        ELSE Ok([output |-> a.output,
                 list |-> a.list,
                 select |-> IF a.select.some
                            THEN Some(SelectorFromStr(a.select.v).val)
                            ELSE [some |-> FALSE, v |-> ByName(<<>>)],
                 use_sheet_names |-> a.use_sheet_names,
                 workdir |-> a.workdir,
                 include |-> a.include,
                 exclude |-> a.exclude,
                 ignore_case |-> a.ignore_case,
                 delimiter |-> d.val])

(***************************************************************************)
(* Explored inputs.                                                        *)
(***************************************************************************)
BigNumeral ==
    <<"1", "8", "4", "4", "6", "7", "4", "4", "0", "7",
      "3", "7", "0", "9", "5", "5", "1", "6", "1", "6">>

SheetNames == {<<"A", "b">>, <<"b", "X">>, <<"1">>}

NumericSheetNames == {<<"1">>, <<"0", "1">>, BigNumeral, <<"-", "0">>}

SelectTexts == {<<"1">>, <<"A", "b">>}

SelectTextsMore ==
    {<<"0">>, <<"2">>, <<"+", "1">>, <<"0", "1">>, <<"-", "0">>, <<>>,
     <<"+">>, <<"1", "b">>, <<"b", "X">>, USIZE_MAX, BigNumeral}

IncludeTexts == {<<"b">>, <<"(">>}

ExcludeTexts == {<<"x">>}

WorkdirTexts == {<<"d">>}

DelimiterTexts == {<<",">>, <<"\\", "t">>, <<";", ";">>, <<"é">>}

OutputPaths == {<<"o", "1">>, <<"o", "2">>}

OptionOf(S) == {None} \cup {Some(v) : v \in S}

\* Command lines over every combination of the options.
ArgsAll ==
    [output : SeqsUpTo(OutputPaths, MaxOutputs),
     list : BOOLEAN,
     select : OptionOf(SelectTexts),
     use_sheet_names : BOOLEAN,
     workdir : OptionOf(WorkdirTexts),
     include : OptionOf(IncludeTexts),
     exclude : OptionOf(ExcludeTexts),
     ignore_case : BOOLEAN,
     delimiter : DelimiterTexts]

\* Command lines `xlsx2csv input -s <text>`.
ArgsSelect ==
    [output : {<<>>},
     list : {FALSE},
     select : OptionOf(SelectTextsMore),
     use_sheet_names : {FALSE},
     workdir : {None},
     include : {None},
     exclude : {None},
     ignore_case : {FALSE},
     delimiter : {<<",">>}]

\* The sheet name lists a workbook reports.
Workbooks ==
    SeqsUpTo(SheetNames, MaxSheets) \cup SeqsUpTo(NumericSheetNames, 1)

\* Range::get_size of a sheet: (0, 0) for an empty range.
RangeSizes == {<<0, 0>>} \cup {<<n, 1>> : n \in 1..MaxRows}

(***************************************************************************)
(* The state of one run of main().                                         *)
(***************************************************************************)
VARIABLES
    args,        \* the command line
    opt,         \* Opt::from_args()
    pc,          \* the position in main() / worksheet_to_csv()
    sheetnames,  \* workbook.sheet_names().to_vec()
    seen,        \* the row count of every sheet range read so far
    log,         \* every input/output operation performed, in order
    i,           \* the position of the running loop's iterator (1-based)
    cur,         \* the sheet handed to worksheet_to_csv
    out,         \* the output path of the current file
    wtr,         \* the sink of the current csv writer
    r,           \* the next row of the range to write (1-based)
    h,           \* the number of rows of the range
    ret,         \* where worksheet_to_csv returns to
    found,       \* the result of SheetSelector::find_in
    err          \* the message of the panic or usage error that ended the run

vars == <<args, opt, pc, sheetnames, seen, log, i, cur, out, wtr, r, h, ret, found, err>>

STDOUT == <<"<stdout>">>

NoOpt ==
    [output |-> <<>>, list |-> FALSE,
     select |-> [some |-> FALSE, v |-> ByName(<<>>)],
     use_sheet_names |-> FALSE, workdir |-> None, include |-> None,
     exclude |-> None, ignore_case |-> FALSE, delimiter |-> ","]

\* One logged operation: ev is the operation, text its line, path or sink,
\* sheet and row the record written.
Event(ev, text, sheet, row) == [ev |-> ev, text |-> text, sheet |-> sheet, row |-> row]

Logged(e) == log' = Append(log, e)

\* find_in has not been called.
NotFound == Err(<<>>)

Init ==
    /\ args \in ArgsAll \cup ArgsSelect
    /\ opt = NoOpt
    /\ pc = "from_args"
    /\ sheetnames = <<>>
    /\ seen = <<>>
    /\ log = <<>>
    /\ i = 1
    /\ cur = <<>>
    /\ out = <<>>
    /\ wtr = <<>>
    /\ r = 1
    /\ h = 0
    /\ ret = "done"
    /\ found = NotFound
    /\ err = ""

Panic(msg) ==
    /\ pc' = "panic"
    /\ err' = msg

\* main, line 221: Opt::from_args() parses and validates the command line,
\* and ends the process with a usage error when it is rejected.
FromArgs ==
    /\ pc = "from_args"
    /\ LET p == ParseOpt(args)
       IN  IF p.ok
           THEN /\ opt' = p.val
                /\ pc' = "open_workbook"
                /\ err' = err
           ELSE /\ opt' = opt
                /\ pc' = "usage_error"
                /\ err' = p.err[1]
    /\ UNCHANGED <<args, sheetnames, seen, log, i, cur, out, wtr, r, h, ret, found>>

\* main, lines 222-226: the workbook opens and reports its sheet names.
OpenWorkbook ==
    /\ pc = "open_workbook"
    /\ \E names \in Workbooks :
        /\ sheetnames' = names
        /\ Logged(Event("open_workbook", <<>>, <<>>, 0))
        /\ IF names = <<>>
           THEN Panic("input file has zero sheet!")
           ELSE pc' = "route" /\ err' = err
    /\ UNCHANGED <<args, opt, seen, i, cur, out, wtr, r, h, ret, found>>

\* main, line 222: open_workbook_auto fails.
OpenWorkbookFails ==
    /\ pc = "open_workbook"
    /\ Panic("open file")
    /\ UNCHANGED <<args, opt, sheetnames, seen, log, i, cur, out, wtr, r, h, ret, found>>

\* The mode the router takes: the if / else if chain of main.
Mode(o) ==
    IF o.list THEN "list"
    ELSE IF o.use_sheet_names THEN "named"
    ELSE IF o.output = <<>> THEN "single"
    ELSE "positional"

IncludePattern(o) == RegexBuild(o.include.v, o.ignore_case)

ExcludePattern(o) == RegexBuild(o.exclude.v, o.ignore_case)

\* main, lines 228, 235-250, 274-278, 286: the branch taken, and what each
\* branch sets up before its first sheet.
Route ==
    /\ pc = "route"
    /\ i' = 1
    /\ CASE Mode(opt) = "list" ->
              /\ pc' = "list_loop"
              /\ UNCHANGED <<log, wtr, err>>
         [] Mode(opt) = "named" ->
              /\ IF opt.include.some /\ ~IncludePattern(opt).ok
                 THEN Panic("include pattern")
                 ELSE IF opt.exclude.some /\ ~ExcludePattern(opt).ok
                      THEN Panic("exclude pattern")
                      ELSE pc' = "named_loop" /\ err' = err
              /\ UNCHANGED <<log, wtr>>
         [] Mode(opt) = "single" ->
              /\ Logged(Event("stdout_writer", STDOUT, <<>>, 0))
              /\ wtr' = STDOUT
              /\ pc' = "select"
              /\ err' = err
         [] OTHER ->
              /\ pc' = "zip_loop"
              /\ UNCHANGED <<log, wtr, err>>
    /\ UNCHANGED <<args, opt, sheetnames, seen, cur, out, r, h, ret, found>>

\* Variant: the loop stops one element early.
ListHasNextShort(k, n) == k < n

\* main, line 229: `for sheet in sheetnames`
ListHasNext(k, n) == k <= n

\* main, lines 229-232: one sheet name printed per iteration, then return.
ListLoop ==
    /\ pc = "list_loop"
    /\ IF ListHasNext(i, Len(sheetnames))
       THEN /\ Logged(Event("println", sheetnames[i], <<>>, 0))
            /\ i' = i + 1
            /\ pc' = pc
       ELSE /\ pc' = "done"
            /\ UNCHANGED <<log, i>>
    /\ UNCHANGED <<args, opt, sheetnames, seen, cur, out, wtr, r, h, ret, err, found>>

\* main, lines 253-258: the include filter.
IncludeKeeps(o, name) ==
    IF o.include.some THEN is_match(IncludePattern(o).val, name) ELSE TRUE

\* Variant: the exclude filter without its negation.
ExcludeKeepsInverted(o, name) ==
    IF o.exclude.some THEN is_match(ExcludePattern(o).val, name) ELSE TRUE

\* main, lines 259-264: the exclude filter.
ExcludeKeeps(o, name) ==
    IF o.exclude.some THEN ~is_match(ExcludePattern(o).val, name) ELSE TRUE

\* main, lines 251-265: the filtered iterator looks at the next sheet name,
\* and the loop body starts for a name both filters keep.
NamedLoop ==
    /\ pc = "named_loop"
    /\ IF i <= Len(sheetnames)
       THEN /\ i' = i + 1
            /\ IF IncludeKeeps(opt, sheetnames[i]) /\ ExcludeKeeps(opt, sheetnames[i])
               THEN cur' = sheetnames[i] /\ pc' = "named_print"
               ELSE cur' = cur /\ pc' = pc
       ELSE /\ pc' = "done"
            /\ UNCHANGED <<i, cur>>
    /\ UNCHANGED <<args, opt, sheetnames, seen, log, out, wtr, r, h, ret, err, found>>

\* main, line 266
NamedOutput(o, sheet) ==
    PathJoin(o.workdir.v, sheet \o <<".">> \o to_file_extension(o.delimiter))

\* Variant: the output path is derived and not printed.
NamedPrintSilent ==
    /\ pc = "named_print"
    /\ out' = NamedOutput(opt, cur)
    /\ pc' = "named_open"
    /\ UNCHANGED <<args, opt, sheetnames, seen, log, i, cur, wtr, r, h, ret, err, found>>

\* main, lines 266-267: the output path is derived and printed.
NamedPrint ==
    /\ pc = "named_print"
    /\ out' = NamedOutput(opt, cur)
    /\ Logged(Event("println", out', <<>>, 0))
    /\ pc' = "named_open"
    /\ UNCHANGED <<args, opt, sheetnames, seen, i, cur, wtr, r, h, ret, err, found>>

\* main, lines 268-272: the output file is opened and the sheet is handed to
\* worksheet_to_csv.
NamedOpen ==
    /\ pc = "named_open"
    /\ Logged(Event("open", out, <<>>, 0))
    /\ wtr' = out
    /\ ret' = "named_loop"
    /\ pc' = "range"
    /\ UNCHANGED <<args, opt, sheetnames, seen, i, cur, out, r, h, err, found>>

\* main, line 271: from_path fails.
NamedOpenFails ==
    /\ pc = "named_open"
    /\ Panic("open file for output")
    /\ UNCHANGED <<args, opt, sheetnames, seen, log, i, cur, out, wtr, r, h, ret, found>>

\* Variant: an unresolvable selector falls back to the first sheet.
SelectOrFirst ==
    /\ pc = "select"
    /\ IF opt.select.some
       THEN LET name == find_in(opt.select.v, sheetnames)
            IN  /\ found' = name
                /\ cur' = IF name.ok THEN name.val ELSE sheetnames[1]
       ELSE cur' = sheetnames[1] /\ found' = found
    /\ pc' = "range"
    /\ ret' = "done"
    /\ UNCHANGED <<args, opt, sheetnames, seen, log, i, out, wtr, r, h, err>>

\* main, lines 280-285: the selected sheet, or the first one.
Select ==
    /\ pc = "select"
    /\ IF opt.select.some
       THEN LET name == find_in(opt.select.v, sheetnames)
            IN  /\ found' = name
                /\ IF name.ok
                   THEN cur' = name.val /\ pc' = "range" /\ err' = err
                   ELSE cur' = cur /\ Panic("invalid selector")
       ELSE cur' = sheetnames[1] /\ pc' = "range" /\ UNCHANGED <<err, found>>
    /\ ret' = "done"
    /\ UNCHANGED <<args, opt, sheetnames, seen, log, i, out, wtr, r, h>>

\* Variant: the last sheet is never paired.
ZipHasNextShort(k, n, m) == k < n /\ k <= m

\* Zip::next: a pair while both sequences have an element
ZipHasNext(k, n, m) == k <= n /\ k <= m

\* main, line 287: zip yields the next pair while both sequences have one.
ZipLoop ==
    /\ pc = "zip_loop"
    /\ IF ZipHasNext(i, Len(sheetnames), Len(opt.output))
       THEN /\ cur' = sheetnames[i]
            /\ out' = opt.output[i]
            /\ i' = i + 1
            /\ pc' = "zip_print"
       ELSE /\ pc' = "done"
            /\ UNCHANGED <<i, cur, out>>
    /\ UNCHANGED <<args, opt, sheetnames, seen, log, wtr, r, h, ret, err, found>>

\* main, line 288
ZipPrint ==
    /\ pc = "zip_print"
    /\ Logged(Event("println", out, <<>>, 0))
    /\ pc' = "zip_open"
    /\ UNCHANGED <<args, opt, sheetnames, seen, i, cur, out, wtr, r, h, ret, err, found>>

\* main, lines 289-293
ZipOpen ==
    /\ pc = "zip_open"
    /\ Logged(Event("open", out, <<>>, 0))
    /\ wtr' = out
    /\ ret' = "zip_loop"
    /\ pc' = "range"
    /\ UNCHANGED <<args, opt, sheetnames, seen, i, cur, out, r, h, err, found>>

\* main, line 292: from_path fails.
ZipOpenFails ==
    /\ pc = "zip_open"
    /\ Panic("open file for output")
    /\ UNCHANGED <<args, opt, sheetnames, seen, log, i, cur, out, wtr, r, h, ret, found>>

(***************************************************************************)
(* worksheet_to_csv                                                        *)
(***************************************************************************)
\* The sizes a read of `sheet` can report: the one already seen for that
\* name, or any size for a sheet not read before.
SizesOf(sheet) ==
    IF \E k \in 1..Len(seen) : seen[k].sheet = sheet
    THEN {seen[CHOOSE k \in 1..Len(seen) : seen[k].sheet = sheet].size}
    ELSE RangeSizes

\* worksheet_to_csv, line 200
ZeroSize(size) == size[1] = 0 \/ size[2] = 0

\* worksheet_to_csv, lines 195-204: the range of the sheet is read; an empty
\* one returns at once.
WorksheetRange ==
    /\ pc = "range"
    /\ \E size \in SizesOf(cur) :
        /\ seen' = IF \E k \in 1..Len(seen) : seen[k].sheet = cur
                   THEN seen
                   ELSE Append(seen, [sheet |-> cur, size |-> size])
        /\ Logged(Event("range", wtr, cur, 0))
        /\ IF ZeroSize(size)
           THEN pc' = "return" /\ UNCHANGED <<r, h>>
           ELSE pc' = "rows" /\ r' = 1 /\ h' = size[1]
    /\ UNCHANGED <<args, opt, sheetnames, i, cur, out, wtr, ret, err, found>>

\* worksheet_to_csv, lines 195-198: the sheet is not found or not readable.
WorksheetRangeFails ==
    /\ pc = "range"
    /\ Panic("get range")
    /\ UNCHANGED <<args, opt, sheetnames, seen, log, i, cur, out, wtr, r, h, ret, found>>

\* Variant: the loop is left after its first row.
AfterRecordLeaves(row, rows) == "flush"

\* worksheet_to_csv, lines 205 and 217: after a row the loop goes on with
\* the next row, and leaves for line 218 after the last one.
AfterRecord(row, rows) == IF row < rows THEN "rows" ELSE "flush"

\* worksheet_to_csv, lines 205-217: one row is projected and written.
WriteRecord ==
    /\ pc = "rows"
    /\ Logged(Event("write_record", wtr, cur, r))
    /\ r' = r + 1
    /\ pc' = AfterRecord(r, h)
    /\ UNCHANGED <<args, opt, sheetnames, seen, i, cur, out, wtr, h, ret, err, found>>

\* worksheet_to_csv, line 216: write_record fails.
WriteRecordFails ==
    /\ pc = "rows"
    /\ Panic("write_record")
    /\ UNCHANGED <<args, opt, sheetnames, seen, log, i, cur, out, wtr, r, h, ret, found>>

\* worksheet_to_csv, line 218: the writer is flushed once, after the loop.
Flush ==
    /\ pc = "flush"
    /\ Logged(Event("flush", wtr, cur, 0))
    /\ pc' = "return"
    /\ UNCHANGED <<args, opt, sheetnames, seen, i, cur, out, wtr, r, h, ret, err, found>>

\* worksheet_to_csv, line 218: flush fails.
FlushFails ==
    /\ pc = "flush"
    /\ Panic("flush")
    /\ UNCHANGED <<args, opt, sheetnames, seen, log, i, cur, out, wtr, r, h, ret, found>>

\* worksheet_to_csv returns (lines 202, 219), and the caller's writer goes
\* out of scope (lines 273, 285, 294).
Return ==
    /\ pc = "return"
    /\ Logged(Event("drop", wtr, <<>>, 0))
    /\ wtr' = <<>>
    /\ pc' = ret
    /\ UNCHANGED <<args, opt, sheetnames, seen, i, cur, out, r, h, ret, err, found>>

Next ==
    \/ FromArgs
    \/ OpenWorkbook
    \/ OpenWorkbookFails
    \/ Route
    \/ ListLoop
    \/ NamedLoop
    \/ NamedPrint
    \/ NamedOpen
    \/ NamedOpenFails
    \/ Select
    \/ ZipLoop
    \/ ZipPrint
    \/ ZipOpen
    \/ ZipOpenFails
    \/ WorksheetRange
    \/ WorksheetRangeFails
    \/ WriteRecord
    \/ WriteRecordFails
    \/ Flush
    \/ FlushFails
    \/ Return

Spec == Init /\ [][Next]_vars

(***************************************************************************)
(* SheetSelector::find_in on its own: every selector against every name    *)
(* list.                                                                   *)
(***************************************************************************)
FindInNames == SheetNames \cup {BigNumeral}

FindInSelectors ==
    {ById(NumeralOf(n)) : n \in 0..(MaxSheets + 2)}
    \cup {ById(USIZE_MAX)}
    \cup {ByName(n) : n \in FindInNames \cup {<<"a", "b">>, <<"b">>, <<>>}}

NoArgs ==
    [output |-> <<>>, list |-> FALSE, select |-> None,
     use_sheet_names |-> FALSE, workdir |-> None, include |-> None,
     exclude |-> None, ignore_case |-> FALSE, delimiter |-> <<",">>]

InitFindIn ==
    /\ args = NoArgs
    /\ \E sel \in FindInSelectors : opt = [NoOpt EXCEPT !.select = Some(sel)]
    /\ pc = "find_in"
    /\ sheetnames \in SeqsUpTo(FindInNames, MaxSheets)
    /\ seen = <<>>
    /\ log = <<>>
    /\ i = 1
    /\ cur = <<>>
    /\ out = <<>>
    /\ wtr = <<>>
    /\ r = 1
    /\ h = 0
    /\ ret = "done"
    /\ found = NotFound
    /\ err = ""

\* select.find_in(&sheetnames)
ApplyFindIn ==
    /\ pc = "find_in"
    /\ found' = find_in(opt.select.v, sheetnames)
    /\ pc' = "found"
    /\ UNCHANGED <<args, opt, sheetnames, seen, log, i, cur, out, wtr, r, h, ret, err>>

SpecFindIn == InitFindIn /\ [][ApplyFindIn]_vars

(***************************************************************************)
(* Views of the log.                                                       *)
(***************************************************************************)
EventsOf(ev) == SelectSeq(log, LAMBDA e : e.ev = ev)

TextsOf(ev) == [k \in 1..Len(EventsOf(ev)) |-> EventsOf(ev)[k].text]

\* The lines printed with println!, the output files opened, and the
\* (sink, sheet) of every sheet range read.
Printed == TextsOf("println")

Opened == TextsOf("open")

Projected ==
    [k \in 1..Len(EventsOf("range")) |->
        <<EventsOf("range")[k].text, EventsOf("range")[k].sheet>>]

IsPrefix(a, b) == Len(a) <= Len(b) /\ \A k \in 1..Len(a) : a[k] = b[k]

\* The command line was accepted by the option parser.
Accepted == pc \notin {"from_args", "usage_error", "find_in", "found"}

\* The router has been reached and has taken its branch.
Routed ==
    Accepted /\ pc \notin {"open_workbook", "route"} /\ sheetnames # <<>>

Ended == pc \in {"done", "panic", "usage_error"}

\* The mode triggers set on a command line.
Triggers(a) ==
    (IF a.list THEN {"list"} ELSE {})
    \cup (IF a.use_sheet_names THEN {"use-sheet-names"} ELSE {})
    \cup (IF a.output # <<>> THEN {"output"} ELSE {})

(***************************************************************************)
(* Output routing                                                          *)
(***************************************************************************)
\* C1: every command line the option parser accepts sets at most one of the
\* three mode triggers (list, use-sheet-names, a non-empty output list), and
\* the run performs the output actions of one mode only: a writer over
\* standard output only in single-stream mode, output files only in the two
\* file modes, and nothing but println in list mode.
C1_OneModePerAcceptedRun ==
    Accepted =>
        /\ Cardinality(Triggers(args)) <= 1
        /\ EventsOf("stdout_writer") # <<>> => Mode(opt) = "single"
        /\ Opened # <<>> => Mode(opt) \in {"named", "positional"}
        /\ Mode(opt) = "list" => Projected = <<>>
        /\ Mode(opt) = "single" => Printed = <<>>

PatternsValid(o) ==
    /\ o.include.some => IncludePattern(o).ok
    /\ o.exclude.some => ExcludePattern(o).ok

\* The names of `names`, in order, that match the include pattern (when
\* there is one) and do not match the exclude pattern (when there is one).
RECURSIVE Survivors(_, _)
Survivors(o, names) ==
    IF names = <<>> THEN <<>>
    ELSE LET n == Head(names)
             keep == /\ o.include.some => is_match(IncludePattern(o).val, n)
                     /\ o.exclude.some => ~is_match(ExcludePattern(o).val, n)
         IN  (IF keep THEN <<n>> ELSE <<>>) \o Survivors(o, Tail(names))

\* The files named-files mode is to write: one per surviving name.
NamedFiles(o, names) ==
    LET kept == Survivors(o, names)
    IN  [k \in 1..Len(kept) |-> <<NamedOutput(o, kept[k]), kept[k]>>]

InNamedMode == Routed /\ Mode(opt) = "named" /\ PatternsValid(opt)

\* C2: in named-files mode the sheets written to files are, at every moment,
\* the first ones of the subsequence of the workbook's names (workbook order)
\* that match the include pattern and do not match the exclude pattern, each
\* to the file named after it; when the run completes they are exactly that
\* subsequence, one file per surviving name and no other file.
C2_NamedFilesAreTheSurvivors ==
    InNamedMode =>
        LET files == NamedFiles(opt, sheetnames)
        IN  /\ IsPrefix(Projected, files)
            /\ IsPrefix(Opened, [k \in 1..Len(files) |-> files[k][1]])
            /\ Len(Opened) - Len(Projected) \in {0, 1}
            /\ pc = "done" =>
                  /\ Projected = files
                  /\ Len(Opened) = Len(Projected)

\* A completed named-files run in which the include pattern drops one name
\* and the exclude pattern vetoes a name the include pattern kept.
C2_Witness ==
    /\ InNamedMode
    /\ pc = "done"
    /\ opt.include.some /\ opt.exclude.some
    /\ Len(Survivors(opt, sheetnames)) = 1
    /\ \E k \in 1..Len(sheetnames) :
          /\ is_match(IncludePattern(opt).val, sheetnames[k])
          /\ is_match(ExcludePattern(opt).val, sheetnames[k])
    /\ Len(Projected) = 1

InPositionalMode == Routed /\ Mode(opt) = "positional"

\* The pairs positional-files mode is to write: the k-th sheet to the k-th
\* output path, for k up to the shorter length.
PositionalFiles(o, names) ==
    [k \in 1..Min(Len(names), Len(o.output)) |-> <<o.output[k], names[k]>>]

\* C3: in positional-files mode with N sheets and M >= 1 output paths the
\* files written are, at every moment, the first pairs (k-th output path,
\* k-th sheet), never more than min(N, M) of them; a completed run has
\* written exactly min(N, M) files, and a routed run ends in an error only
\* through a failed open, read, write or flush.
C3_PositionalPairs ==
    /\ (Accepted /\ Mode(opt) = "positional") =>
          Len(Opened) <= Min(Len(sheetnames), Len(opt.output))
    /\ InPositionalMode =>
        /\ IsPrefix(Projected, PositionalFiles(opt, sheetnames))
        /\ IsPrefix(Opened, SubSeq(opt.output, 1,
                                   Min(Len(sheetnames), Len(opt.output))))
        /\ Len(Opened) - Len(Projected) \in {0, 1}
        /\ pc = "done" =>
              /\ Len(Opened) = Min(Len(sheetnames), Len(opt.output))
              /\ Projected = PositionalFiles(opt, sheetnames)
        /\ pc = "panic" =>
              err \in {"open file for output", "get range", "write_record", "flush"}

\* A completed positional run with more sheets than output paths.
C3_Witness ==
    /\ InPositionalMode
    /\ pc = "done"
    /\ Len(sheetnames) > Len(opt.output)
    /\ Len(Opened) = Len(opt.output)

InSingleMode == Routed /\ Mode(opt) = "single"

\* The sheet single-stream mode is to project.
SingleTarget ==
    IF opt.select.some THEN find_in(opt.select.v, sheetnames).val
    ELSE sheetnames[1]

Unresolvable == opt.select.some /\ ~find_in(opt.select.v, sheetnames).ok

\* C4: in single-stream mode at most one sheet is projected, to standard
\* output: the sheet the selector resolves to when one was supplied, the
\* first sheet when none was; when the selector does not resolve the run
\* fails and no sheet is read and no record written.
C4_SingleStream ==
    InSingleMode =>
        /\ Len(Projected) <= 1
        /\ \A k \in 1..Len(Projected) : Projected[k] = <<STDOUT, SingleTarget>>
        /\ \A k \in 1..Len(log) :
              log[k].ev = "write_record" =>
                  log[k].text = STDOUT /\ log[k].sheet = SingleTarget
        /\ Opened = <<>>
        /\ pc = "done" => Len(Projected) = 1
        /\ Unresolvable =>
              /\ pc \in {"select", "panic"}
              /\ pc = "panic" => err = "invalid selector"
              /\ Projected = <<>>
              /\ EventsOf("write_record") = <<>>

\* A completed run with a selector that resolved to the second sheet, whose
\* rows were written.
C4_Witness ==
    /\ InSingleMode
    /\ pc = "done"
    /\ opt.select.some
    /\ Len(sheetnames) >= 2
    /\ SingleTarget = sheetnames[2]
    /\ sheetnames[2] # sheetnames[1]
    /\ EventsOf("write_record") # <<>>

(***************************************************************************)
(* Sheet selection                                                         *)
(***************************************************************************)
\* The position (0-based) a numeral names in a list of n elements, if any.
PositionsOf(id, n) == {k \in 0..(n - 1) : NumeralOf(k) = id}

\* C5: find_in agrees with the reference: ById(i) gives names[i] when
\* i < N and otherwise fails with the out-of-range message reporting N;
\* ByName(n) gives n when n is an element of names and otherwise fails with
\* a message that holds every available name; a successful result is an
\* element of names.
C5_FindInReference ==
    pc = "found" =>
        LET sel == opt.select.v
            n == Len(sheetnames)
        IN  /\ sel.tag = "ById" =>
                  IF PositionsOf(sel.id, n) # {}
                  THEN /\ found.ok
                       /\ \A k \in PositionsOf(sel.id, n) :
                             found.val = sheetnames[k + 1]
                  ELSE /\ ~found.ok
                       /\ IsInfix(<<"n", "o", "t", " ", "v", "a", "l", "i", "d">>,
                                  found.err)
                       /\ IsInfix(<<"o", "n", "l", "y", " ", "*", "*">>
                                  \o NumeralOf(n) \o <<"*", "*">>, found.err)
            /\ sel.tag = "ByName" =>
                  IF \E k \in 1..n : sheetnames[k] = sel.name
                  THEN found.ok /\ found.val = sel.name
                  ELSE /\ ~found.ok
                       /\ IsInfix(<<"n", "o", "t", " ", "i", "n", " ", "(">>,
                                  found.err)
                       /\ \A k \in 1..n : IsInfix(sheetnames[k], found.err)
            /\ found.ok => found.val \in Range(sheetnames)

\* The id equal to the number of sheets is refused.
C5_Witness ==
    /\ pc = "found"
    /\ Len(sheetnames) >= 1
    /\ opt.select.v = ById(NumeralOf(Len(sheetnames)))
    /\ ~found.ok

\* The digits of a text after its optional leading plus sign.
DigitsOf(t) == IF t # <<>> /\ Head(t) = "+" THEN Tail(t) ELSE t

\* A text that parses as a usize: an optional '+', then one or more decimal
\* digits, of a value up to usize::MAX.
IsUsizeText(t) ==
    /\ DigitsOf(t) # <<>>
    /\ \A k \in 1..Len(DigitsOf(t)) : IsDigit(DigitsOf(t)[k])
    /\ ~NumLess(USIZE_MAX, StripZeros(DigitsOf(t)))

\* A text of decimal digits only: the numeral of a non-negative integer.
IsNumeralText(t) == t # <<>> /\ \A k \in 1..Len(t) : IsDigit(t[k])

\* find_in has been called by main.
Selected == Accepted /\ found # NotFound

\* C6 as stated: every text that is the numeral of a non-negative integer
\* becomes ById, and --select with such a text is never resolved by name.
C6_EveryNumeralIsAnId ==
    (Accepted /\ args.select.some /\ IsNumeralText(args.select.v)) =>
        /\ opt.select.v.tag = "ById"
        /\ (Selected /\ found.ok) =>
              PositionsOf(StripZeros(args.select.v), Len(sheetnames)) # {}

\* C6, amended: selector parsing never fails; a text that parses as a usize
\* (an optional '+', decimal digits, value up to usize::MAX) becomes ById of
\* that number and every other text, a numeral beyond usize::MAX included,
\* becomes ByName of the literal text.  --select with a usize text is
\* resolved by position only: it fails when the number is not below the
\* sheet count, whether or not a sheet has that text as its name.
C6_NumericFirst ==
    /\ pc = "usage_error" => err \in {"conflict", "required", "delimiter"}
    /\ (Accepted /\ args.select.some) =>
          /\ opt.select.some
          /\ opt.select.v =
                IF IsUsizeText(args.select.v)
                THEN ById(StripZeros(DigitsOf(args.select.v)))
                ELSE ByName(args.select.v)
          /\ (Selected /\ IsUsizeText(args.select.v)) =>
                LET at == PositionsOf(StripZeros(DigitsOf(args.select.v)),
                                      Len(sheetnames))
                IN  /\ found.ok <=> at # {}
                    /\ \A k \in at : found.val = sheetnames[k + 1]
          /\ (Selected /\ ~IsUsizeText(args.select.v)) =>
                (found.ok <=> args.select.v \in Range(sheetnames))

\* --select 1 on a workbook whose only sheet is named "1" fails.
C6_Witness ==
    /\ args.select = Some(<<"1">>)
    /\ sheetnames = <<(<<"1">>)>>
    /\ pc = "panic"
    /\ err = "invalid selector"
    /\ ~found.ok

(***************************************************************************)
(* List mode                                                               *)
(***************************************************************************)
InListMode == Accepted /\ opt.list

WorkbookOpened == EventsOf("open_workbook") # <<>>

\* C7 as stated: in list mode, for every workbook that opens, whatever its
\* number of sheets, the run prints the sheet names and exits normally,
\* having opened no writer or file and projected no sheet.
C7_ListAnyWorkbook ==
    (InListMode /\ WorkbookOpened /\ Ended) =>
        /\ pc = "done"
        /\ Printed = sheetnames
        /\ \A k \in 1..Len(log) : log[k].ev \in {"open_workbook", "println"}

\* C7, amended: in list mode, for every workbook that opens with at least
\* one sheet, the run prints every sheet name, one per line, in workbook
\* order, and then exits, without opening a writer or file and without
\* projecting a sheet; a workbook with no sheet ends the run with the panic
\* "input file has zero sheet!" and nothing printed.
C7_ListNonEmptyWorkbook ==
    InListMode =>
        /\ \A k \in 1..Len(log) : log[k].ev \in {"open_workbook", "println"}
        /\ IsPrefix(Printed, sheetnames)
        /\ (sheetnames # <<>> /\ Ended) => (pc = "done" /\ Printed = sheetnames)
        /\ (WorkbookOpened /\ sheetnames = <<>>) =>
              /\ pc = "panic"
              /\ err = "input file has zero sheet!"
              /\ Printed = <<>>

\* A list run over a workbook of two sheets has ended.
C7_Witness ==
    /\ InListMode
    /\ pc = "done"
    /\ Len(sheetnames) >= 2
    /\ Printed = sheetnames

(***************************************************************************)
(* Order of the operations                                                 *)
(***************************************************************************)
InFileMode == Routed /\ Mode(opt) \in {"named", "positional"}

\* The println and open operations of the run, in order.
FileEvents == SelectSeq(log, LAMBDA e : e.ev \in {"println", "open"})

\* C8: in both file-writing modes every output file is opened only after
\* its path was printed, and is read into and written only after that; the
\* paths are printed in the order the files are opened, and nothing but the
\* path of each file is printed: the prints and opens alternate, each open
\* is of the path printed just before it, and a sheet is read and its
\* records written and flushed only to the file opened last.
C8_PathPrintedBeforeFile ==
    InFileMode =>
        LET fe == FileEvents
        IN  /\ \A k \in 1..Len(fe) :
                  IF k % 2 = 1 THEN fe[k].ev = "println"
                  ELSE fe[k].ev = "open" /\ fe[k].text = fe[k - 1].text
            /\ Len(fe) % 2 = 1 => fe[Len(fe)].text = out
            /\ \A q \in 1..Len(log) :
                  log[q].ev \in {"range", "write_record", "flush"} =>
                      \E p \in 1..(q - 1) :
                          /\ log[p].ev = "open"
                          /\ log[p].text = log[q].text
                          /\ \A k \in (p + 1)..(q - 1) :
                                log[k].ev \notin {"println", "open"}

\* Two files were written, with records in the second.
C8_Witness ==
    /\ InFileMode
    /\ pc = "done"
    /\ Len(Opened) = 2
    /\ \E q \in 1..Len(log) :
          log[q].ev = "write_record" /\ log[q].text = Opened[2]

\* The option parser rejects the command line.
Rejected(a) ==
    HasConflict(a) \/ MissingRequired(a) \/ ~DelimiterFromStr(a.delimiter).ok

\* C9 as stated: every configuration error (malformed delimiter, conflicting
\* flags, unresolvable sheet selector) ends the run before any input or
\* output operation.
C9_ConfigErrorsBeforeIO ==
    (pc = "usage_error" \/ (pc = "panic" /\ err = "invalid selector")) =>
        log = <<>>

\* C9, amended: a malformed delimiter and every conflict or missing
\* requirement the option parser rejects end the run before the input
\* workbook is opened and before any writer or file is opened; an
\* unresolvable sheet selector is detected after the workbook was opened and
\* the writer over standard output was made, and before any sheet is read or
\* record written.
C9_ParserErrorsBeforeIO ==
    /\ Rejected(args) => (pc \in {"from_args", "usage_error"} /\ log = <<>>)
    /\ pc = "usage_error" => Rejected(args)
    /\ (pc = "panic" /\ err = "invalid selector") =>
          log = <<Event("open_workbook", <<>>, <<>>, 0),
                  Event("stdout_writer", STDOUT, <<>>, 0)>>

\* A run ended by an unresolvable selector.
C9_Witness ==
    /\ pc = "panic"
    /\ err = "invalid selector"
    /\ args.select.some
    /\ ~found.ok

\* The size seen for a sheet that was read.
SizeSeen(sheet) == seen[CHOOSE k \in 1..Len(seen) : seen[k].sheet = sheet].size

\* C10 as stated: between any two consecutive record writes of a sheet
\* there is a flush.
C10_FlushBetweenRecords ==
    \A q \in 1..Len(log) :
        (log[q].ev = "write_record" /\ log[q].row > 1) =>
            \E f \in 1..(q - 1) :
                /\ log[f].ev = "flush"
                /\ \E p \in 1..(f - 1) :
                      /\ log[p].ev = "write_record"
                      /\ log[p].text = log[q].text
                      /\ log[p].row = log[q].row - 1
                      /\ \A k \in (p + 1)..(f - 1) : log[k].ev # "range"

\* C10, amended: while projecting a sheet the rows are written one after
\* the other with no flush between them, and the writer is flushed once,
\* after the last row of the sheet and before worksheet_to_csv returns; a
\* sheet of size zero is neither written nor flushed.
C10_FlushOnceAfterRows ==
    \A q \in 1..Len(log) :
        /\ log[q].ev = "write_record" =>
              /\ q - log[q].row >= 1
              /\ log[q - log[q].row].ev = "range"
              /\ log[q - log[q].row].sheet = log[q].sheet
              /\ \A j \in 1..log[q].row :
                    log[q - log[q].row + j] =
                        Event("write_record", log[q].text, log[q].sheet, j)
        /\ log[q].ev = "flush" =>
              /\ q > 1
              /\ log[q - 1] = Event("write_record", log[q].text, log[q].sheet,
                                    SizeSeen(log[q].sheet)[1])
        /\ log[q].ev = "drop" =>
              /\ q > 1
              /\ \/ log[q - 1].ev = "flush" /\ log[q - 1].text = log[q].text
                 \/ /\ log[q - 1].ev = "range"
                    /\ log[q - 1].text = log[q].text
                    /\ ZeroSize(SizeSeen(log[q - 1].sheet))

\* A sheet of two rows or more was written and flushed.
C10_Witness ==
    \E q \in 2..Len(log) :
        /\ log[q].ev = "flush"
        /\ log[q - 1].ev = "write_record"
        /\ log[q - 1].row >= 2

====
